---- MODULE Spec2Model ----
(***************************************************************************)
(* A model of the u64 Set (templexxx/u64): a hopscotch table of uint64     *)
(* keys kept in two tables (the cycle), a packed 64-bit status word, a     *)
(* writer (Add / Remove), the background migrator (expand), readers        *)
(* (Contains) and Close.  Every atomic load, store, add and CAS of the     *)
(* code is one step of the thread that executes it.                        *)
(***************************************************************************)
EXTENDS Integers, Sequences, FiniteSets, TLC

(***************************************************************************)
(* Bounds of the model.  The code's neighbour is 64 and its MaxCap 1<<25;  *)
(* the model keeps the arithmetic and scales both down so that a table     *)
(* fills, relocates and doubles within a few keys.                         *)
(***************************************************************************)
neighbour == 2

MaxCap == 8

MaxNewCap == 8

NumKeys == 6

MaxOps == 3

MaxOpsRd == 2

MaxOpsCl == 2

\* The calls of the writer next to a reader on a table that cannot grow.
MaxOpsSw == 3

\* The calls of the writer on a set that has grown once.
MaxOpsGrown == 2

\* The low halves of the hash words getTblSlotByIdx is applied to.
MaxHash == 63

minCap == 2

cntBits == 32

\* The keys the writer and the readers use, in the order NumKeys admits them.
KeyList == <<0, 7, 12, 2, 4, 3, 1, 9, 5>>

Keys == {KeyList[i] : i \in 1..(IF NumKeys < Len(KeyList) THEN NumKeys ELSE Len(KeyList))}

(***************************************************************************)
(* 32-bit words as <<high 16 bits, low 16 bits>>, so that no intermediate  *)
(* value leaves the range of the checker's integers.                       *)
(***************************************************************************)
RECURSIVE Pow2(_)
Pow2(n) == IF n = 0 THEN 1 ELSE 2 * Pow2(n - 1)

RECURSIVE BitXor(_, _)
BitXor(a, b) ==
  IF a = 0 THEN b
  ELSE IF b = 0 THEN a
  ELSE (((a % 2) + (b % 2)) % 2) + 2 * BitXor(a \div 2, b \div 2)

RECURSIVE BitAnd(_, _)
BitAnd(a, b) ==
  IF a = 0 \/ b = 0 THEN 0
  ELSE ((a % 2) * (b % 2)) + 2 * BitAnd(a \div 2, b \div 2)

W32(hi, lo) == <<hi, lo>>

Xor32(x, y) == W32(BitXor(x[1], y[1]), BitXor(x[2], y[2]))

Add32(x, y) ==
  LET lo == x[2] + y[2]
      hi == x[1] + y[1] + (lo \div 65536)
  IN  W32(hi % 65536, lo % 65536)

\* x * y mod 2^32, by bytes.
Mul32(x, y) ==
  LET a0 == x[2] % 256  a1 == x[2] \div 256  a2 == x[1] % 256  a3 == x[1] \div 256
      b0 == y[2] % 256  b1 == y[2] \div 256  b2 == y[1] % 256  b3 == y[1] \div 256
      s0 == a0 * b0
      s1 == a0 * b1 + a1 * b0 + (s0 \div 256)
      s2 == a0 * b2 + a1 * b1 + a2 * b0 + (s1 \div 256)
      s3 == a0 * b3 + a1 * b2 + a2 * b1 + a3 * b0 + (s2 \div 256)
  IN  W32((s3 % 256) * 256 + (s2 % 256), (s1 % 256) * 256 + (s0 % 256))

\* bits.RotateLeft32(x, r) for 0 < r < 16.
RotL32(x, r) ==
  LET up == Pow2(r)
      dn == Pow2(16 - r)
  IN  W32((x[1] % dn) * up + (x[2] \div dn), (x[2] % dn) * up + (x[1] \div dn))

\* x >> r for 0 < r <= 16.
Shr32(x, r) ==
  LET dn == Pow2(r)
      up == Pow2(16 - r)
  IN  W32(x[1] \div dn, (x[1] % dn) * up + (x[2] \div dn))

c1 == W32(52382, 11601)

c2 == W32(7047, 13715)

mur(a, h) ==
  LET a1 == Mul32(a, c1)
      a2 == RotL32(a1, 15)
      a3 == Mul32(a2, c2)
      h1 == Xor32(h, a3)
      h2 == RotL32(h1, 13)
  IN  Add32(Mul32(h2, W32(0, 5)), W32(58964, 27492))

fmix(h) ==
  LET h1 == Xor32(h, Shr32(h, 16))
      h2 == Mul32(h1, W32(34283, 51819))
      h3 == Xor32(h2, Shr32(h2, 13))
      h4 == Mul32(h3, W32(49842, 44597))
  IN  Xor32(h4, Shr32(h4, 16))

\* The model's keys are below 2^16: key>>32 is 0 and the low word is the key.
hash32(key, seed) ==
  LET d == Add32(W32(0, 40), W32(0, seed))
      a == Add32(W32(0, 8), W32(0, key))
      b == W32(0, 40)
      c == W32(0, 9)
  IN  fmix(Xor32(W32(0, seed), mur(c, mur(b, mur(a, d)))))

calcHash(idx, key) == IF idx = 0 THEN hash32(key, 0) ELSE hash32(key, 1)

\* The hashes of the model's keys, computed once.
HashOf == [idx \in {0, 1}, k \in Keys |-> calcHash(idx, k)]

(***************************************************************************)
(* helper.go                                                               *)
(***************************************************************************)
RECURSIVE BitLen(_)
BitLen(x) == IF x = 0 THEN 0 ELSE 1 + BitLen(x \div 2)

nextPower2(n) == IF n <= 1 THEN 1 ELSE Pow2(BitLen(n - 1))

\* The mask taken as the last index of the table.
calcMaskLen(tableCap) == tableCap - 1

calcMask(tableCap) ==
  IF tableCap <= neighbour THEN tableCap - 1 ELSE tableCap - neighbour

calcTableCap(c) == IF c <= neighbour THEN c ELSE c + neighbour - 1

backToOriginCap(c) == IF c <= neighbour THEN c ELSE c + 1 - neighbour

\* slot = int(h & mask); the model's masks are below 2^16.
SlotOf(idx, key, slotCnt) == BitAnd(HashOf[idx, key][2], calcMask(slotCnt))

Zeros(n) == [x \in 1..n |-> 0]

Min(S) == CHOOSE x \in S : \A y \in S : x <= y

(***************************************************************************)
(* status.go: the status word is the set of the positions of its 1 bits.   *)
(***************************************************************************)
setBit(x, off) == x \cup {off}

bitOne(x, off) == off \in x

clrBit(x, off) == x \ {off}

\* A status word created with the lock bit set as well.
createStatusLocked == setBit(setBit({}, 63), 62)

createStatus == setBit({}, 63)

isLocked(sa) == bitOne(sa, 62)

getWritableIdxByStatus(sa) == IF bitOne(sa, 59) THEN 1 ELSE 0

\* setWritable building the word anew from the running bit and the index.
setWritableFresh(sa, idx) == IF idx = 0 THEN {63} ELSE {59, 63}

setWritableSa(sa, idx) == IF idx = 0 THEN clrBit(sa, 59) ELSE setBit(sa, 59)

\* atomic.AddUint64(&s.status, 1)
addCntSa(sa) ==
  LET zs == (0..63) \ sa
  IN  IF zs = {} THEN {} ELSE (sa \ (0..(Min(zs) - 1))) \cup {Min(zs)}

\* atomic.AddUint64(&s.status, ^uint64(0))
delCntSa(sa) ==
  IF sa = {} THEN 0..63 ELSE (sa \ {Min(sa)}) \cup (0..(Min(sa) - 1))

getCntSa(sa) == sa \cap (0..(cntBits - 1))

\* The bits of a natural number below 2^31, to compare a count with getCnt.
Bits(n) == {b \in 0..30 : (n \div Pow2(b)) % 2 = 1}

(***************************************************************************)
(* State.  status and cycle are the fields of Set; tbls is the heap of     *)
(* tables (cycle holds an index into it, Nil for a nil pointer).  loc[t]   *)
(* holds the position and the local variables of goroutine t: 0 is the     *)
(* writer, 1, 2, ... are the expand goroutines in the order of their go    *)
(* statements.  rd is a reader inside Contains, cl the caller of Close.    *)
(* ops counts the calls the writer may still make.  added and snap are     *)
(* history: the keys whose Add returned nil and that no Remove or Close    *)
(* was called for since (with whether a migration reported ErrIsFull), and *)
(* the counter at the writer's call in progress (with the resize it made). *)
(***************************************************************************)
VARIABLES status, cycle, tbls, loc, rd, cl, ops, added, snap

vars == <<status, cycle, tbls, loc, rd, cl, ops, added, snap>>

Nil == 0

Writer == 0

\* sw and ks are history: the swaps of the insert in progress that returned
\* swapOK, and the keys its table held when the insert loaded the pointer.
L0 ==
  [pc |-> "idle", op |-> "none", key |-> 0, fn |-> "none", site |-> "none",
   sa |-> {}, idx |-> 0, tbl |-> Nil, slot |-> 0, slotOff |-> 0, i |-> 0,
   si |-> 0, sj |-> 0, k |-> 0, err |-> "none", aidx |-> 0, oc |-> 0,
   ri |-> 0, src |-> Nil, ei |-> 0, cont |-> "none", res |-> "none", sw |-> 0,
   ks |-> {}]

\* in and was are history: whether the key of the call was added before
\* the last resize, and whether it was added at all, when Contains was called.
R0 ==
  [pc |-> "idle", key |-> 0, idx |-> 0, tbl |-> Nil, slot |-> 0, n |-> 0,
   i |-> 0, res |-> "none", in |-> FALSE, was |-> FALSE, h |-> W32(0, 0)]

C0 == [pc |-> "idle", sa |-> {}]

NoResize == [on |-> FALSE, idx |-> 0, oc |-> 0]

NoSnap == [cnt |-> {}, had |-> FALSE, in |-> {}, rs |-> NoResize]

\* A goroutine that dereferenced a nil table pointer panicked: the process is gone.
Crashed == \E t \in DOMAIN loc : loc[t].pc = "panic"

E0(l) == [st |-> status, cy |-> cycle, tb |-> tbls, lc |-> l]

Store(tb, id, pos, v) == [tb EXCEPT ![id] = [@ EXCEPT ![pos + 1] = v]]

\* The caller of unlock goes on at l.cont once the lock bit is stored.
Unlock(l, cont, res) == [l EXCEPT !.pc = "U_load", !.cont = cont, !.res = res]

(***************************************************************************)
(* tryInsert / tryRemove return err to their call site: Add's switch       *)
(* (add1), Add after the resize (add2), expand (exp) or Remove (rem).      *)
(***************************************************************************)
Return(l, err) ==
  LET c == [l EXCEPT !.err = err, !.sa = {}, !.idx = 0, !.tbl = Nil, !.slot = 0,
                     !.slotOff = 0, !.i = 0, !.si = 0, !.sj = 0, !.k = 0,
                     !.fn = "none", !.site = "none", !.sw = 0, !.ks = {}]
  IN  CASE l.site = "add1" ->
             IF err = "Full" THEN [c EXCEPT !.pc = "A_isScaling"]
             ELSE Unlock(c, "ret", err)
        [] l.site = "add2" -> [c EXCEPT !.pc = "A_go"]
        [] l.site = "exp" ->
             IF err = "Full" THEN [c EXCEPT !.pc = "E_seal_load"]
             ELSE [c EXCEPT !.pc = "E_last"]
        [] OTHER -> [c EXCEPT !.pc = "ret", !.res = err]

\* The deferred addCnt / delCnt runs when err is nil.
Defer(l) == [l EXCEPT !.pc = "I_defer"]

Enter(l, key, isLockedArg, fn, site) ==
  [l EXCEPT !.key = key, !.fn = fn, !.site = site, !.err = "none",
            !.pc = IF isLockedArg THEN "I_sealed" ELSE "I_lock"]

\* swap found no slot to pull back: tryInsert returns ErrIsFull.
SwapFrom(l, start, slotCnt) ==
  IF start < slotCnt THEN [l EXCEPT !.pc = "S_find", !.si = start]
  ELSE Return(l, "Full")

\* The non-zero keys a table holds.
KeysOf(tbl) == {tbl[i] : i \in 1..Len(tbl)} \ {0}

\* Both callers setting has_zero.
zeroBitSet(fn, sa) == setBit(sa, 58)

zeroBit(fn, sa) == IF fn = "ins" THEN setBit(sa, 58) ELSE clrBit(sa, 58)

deferCnt(fn, sa) == IF fn = "ins" THEN addCntSa(sa) ELSE delCntSa(sa)

isSealedSa(sa) == bitOne(sa, 61)

foundKey(k, key) == k = key

\* swap clearing slot j where it stores k at slot i.
swapClearsFirst(tb, id, i, j, k) == Store(tb, id, j, 0)

\* The first store of swap: k goes to the free slot i.
swapOrder(tb, id, i, j, k) == Store(tb, id, i, k)

\* swap leaving the moved key in slot j as well.
swapKeeps(tb, id, j) == tb

\* The second store of swap: slot j, where k came from, is emptied.
swapClear(tb, id, j) == Store(tb, id, j, 0)

\* The distance test of swap with the slot one past the neighbourhood let in.
withinOnePast(i, slot) == i - slot <= neighbour

\* A key with home slot `slot` may be stored at slot i.
withinNeighbour(i, slot) == i - slot < neighbour

swapEff(l) ==
  LET e == E0(l)
      slotCnt == IF l.tbl = Nil THEN 0 ELSE Len(tbls[l.tbl])
  IN  CASE l.pc = "S_find" ->
             IF tbls[l.tbl][l.si + 1] = 0
             THEN LET j == IF l.si - neighbour + 1 < 0 THEN 0 ELSE l.si - neighbour + 1
                  IN  IF j < l.si THEN [e EXCEPT !.lc = [l EXCEPT !.pc = "S_cand", !.sj = j]]
                      ELSE [e EXCEPT !.lc = Return(l, "Full")]
             ELSE [e EXCEPT !.lc = SwapFrom(l, l.si + 1, slotCnt)]
        [] l.pc = "S_cand" ->
             LET k == tbls[l.tbl][l.sj + 1]
                 slot == SlotOf(l.idx, k, slotCnt)
             IN  IF withinNeighbour(l.si, slot)
                 THEN [e EXCEPT !.lc = [l EXCEPT !.pc = "S_st1", !.k = k]]
                 ELSE IF l.sj + 1 < l.si
                 THEN [e EXCEPT !.lc = [l EXCEPT !.sj = l.sj + 1]]
                 ELSE [e EXCEPT !.lc = Return(l, "Full")]
        [] l.pc = "S_st1" ->
             [e EXCEPT !.tb = swapOrder(tbls, l.tbl, l.si, l.sj, l.k),
                       !.lc = [l EXCEPT !.pc = "S_st2"]]
        [] OTHER ->  \* S_st2: the second store, then swap returns (j, swapOK)
             [e EXCEPT !.tb = swapClear(tbls, l.tbl, l.sj),
                       !.lc = IF withinNeighbour(l.sj, l.slot)
                              THEN [l EXCEPT !.pc = "I_stfree", !.k = 0, !.si = 0,
                                             !.sw = l.sw + 1]
                              ELSE [l EXCEPT !.pc = "S_find", !.si = l.sj, !.sj = 0,
                                             !.k = 0, !.sw = l.sw + 1]]

tryInsertEff(l) ==
  LET e == E0(l)
      slotCnt == IF l.tbl = Nil THEN 0 ELSE Len(tbls[l.tbl])
  IN  CASE l.pc = "I_lock" ->
             IF isLocked(status) THEN [e EXCEPT !.lc = [l EXCEPT !.pc = "I_pause"]]
             ELSE [e EXCEPT !.lc = [l EXCEPT !.pc = "I_cas", !.sa = status]]
        [] l.pc = "I_cas" ->
             IF status = l.sa
             THEN [e EXCEPT !.st = setBit(l.sa, 62),
                            !.lc = [l EXCEPT !.pc = "I_sealed", !.sa = {}]]
             ELSE [e EXCEPT !.lc = [l EXCEPT !.pc = "I_pause", !.sa = {}]]
        [] l.pc = "I_pause" ->  \* pause(), goto restart
             [e EXCEPT !.lc = [l EXCEPT !.pc = "I_lock"]]
        [] l.pc = "I_sealed" ->
             IF isSealedSa(status) THEN [e EXCEPT !.lc = Return(l, "Sealed")]
             ELSE IF l.key = 0 THEN [e EXCEPT !.lc = [l EXCEPT !.pc = "I_zload"]]
             ELSE [e EXCEPT !.lc = [l EXCEPT !.pc = "I_idx"]]
        [] l.pc = "I_zload" ->
             [e EXCEPT !.lc = [l EXCEPT !.pc = "I_zstore", !.sa = status]]
        [] l.pc = "I_zstore" ->
             [e EXCEPT !.st = zeroBit(l.fn, l.sa), !.lc = Defer([l EXCEPT !.sa = {}])]
        [] l.pc = "I_idx" ->
             [e EXCEPT !.lc = [l EXCEPT !.pc = "I_ptr",
                                        !.idx = getWritableIdxByStatus(status)]]
        [] l.pc = "I_ptr" ->
             IF cycle[l.idx] = Nil THEN [e EXCEPT !.lc = [l EXCEPT !.pc = "panic"]]
             ELSE [e EXCEPT !.lc =
                     [l EXCEPT !.pc = "I_scan", !.tbl = cycle[l.idx],
                               !.slot = SlotOf(l.idx, l.key, Len(tbls[cycle[l.idx]])),
                               !.slotOff = neighbour, !.i = 0,
                               !.ks = KeysOf(tbls[cycle[l.idx]])]]
        [] l.pc = "I_scan" ->
             LET k == tbls[l.tbl][l.slot + l.i + 1]
                 off == IF k = 0 /\ l.i < l.slotOff THEN l.i ELSE l.slotOff
                 i1 == l.i + 1
             IN  IF foundKey(k, l.key) THEN [e EXCEPT !.lc = Defer([l EXCEPT !.k = k])]
                 ELSE IF i1 < neighbour /\ l.slot + i1 < slotCnt
                 THEN [e EXCEPT !.lc = [l EXCEPT !.i = i1, !.slotOff = off]]
                 ELSE IF off < neighbour
                 THEN [e EXCEPT !.lc = [l EXCEPT !.pc = "I_store", !.slotOff = off, !.i = 0]]
                 ELSE [e EXCEPT !.lc = SwapFrom([l EXCEPT !.slotOff = off, !.i = 0],
                                                l.slot + neighbour, slotCnt)]
        [] l.pc = "I_store" ->
             [e EXCEPT !.tb = Store(tbls, l.tbl, l.slot + l.slotOff, l.key),
                       !.lc = Defer(l)]
        [] l.pc = "I_stfree" ->
             [e EXCEPT !.tb = Store(tbls, l.tbl, l.sj, l.key), !.lc = Defer(l)]
        [] l.pc = "I_defer" ->
             [e EXCEPT !.st = deferCnt(l.fn, status), !.lc = Return(l, "nil")]
        [] OTHER -> swapEff(l)  \* inside swap(slot+neighbour, slotCnt, tbl)

(***************************************************************************)
(* Add, after its call: the IsRunning check, tryInsert, the switch on err  *)
(* with the resize, and the go statement.                                  *)
(***************************************************************************)
\* The check of IsRunning without its negation.
runningTaken(sa) == bitOne(sa, 63)

notRunning(sa) == ~bitOne(sa, 63)

\* The test against MaxCap with the bound doubled.
overTwiceMaxCap(oc) == oc * 2 > 2 * MaxCap

overMaxCap(oc) == oc * 2 > MaxCap

AddEff(l) ==
  LET e == E0(l)
  IN  CASE l.pc = "A_run" ->
             IF notRunning(status)
             THEN [e EXCEPT !.lc = [l EXCEPT !.pc = "ret", !.res = "Closed"]]
             ELSE [e EXCEPT !.lc = Enter(l, l.key, FALSE, "ins", "add1")]
        [] l.pc = "A_isScaling" ->
             IF bitOne(status, 60) THEN [e EXCEPT !.lc = Unlock(l, "ret", "AddTooFast")]
             ELSE [e EXCEPT !.lc = [l EXCEPT !.pc = "A_idx"]]
        [] l.pc = "A_idx" ->
             [e EXCEPT !.lc = [l EXCEPT !.pc = "A_ptr",
                                        !.aidx = getWritableIdxByStatus(status)]]
        [] l.pc = "A_ptr" ->
             IF cycle[l.aidx] = Nil THEN [e EXCEPT !.lc = [l EXCEPT !.pc = "panic"]]
             ELSE LET oc == backToOriginCap(Len(tbls[cycle[l.aidx]]))
                  IN  IF overMaxCap(oc) THEN [e EXCEPT !.lc = Unlock(l, "ret", "Full")]
                      ELSE [e EXCEPT !.lc = [l EXCEPT !.pc = "A_pub", !.oc = oc]]
        [] l.pc = "A_pub" ->
             [e EXCEPT !.tb = Append(tbls, Zeros(calcTableCap(l.oc * 2))),
                       !.cy = [cycle EXCEPT ![1 - l.aidx] = Len(tbls) + 1],
                       !.lc = [l EXCEPT !.pc = "A_sw_load", !.oc = 0]]
        [] l.pc = "A_sw_load" ->
             [e EXCEPT !.lc = [l EXCEPT !.pc = "A_sw_store", !.sa = status]]
        [] l.pc = "A_sw_store" ->
             [e EXCEPT !.st = setWritableSa(l.sa, 1 - l.aidx),
                       !.lc = [l EXCEPT !.pc = "A_sc_load", !.sa = {}]]
        [] l.pc = "A_sc_load" ->
             [e EXCEPT !.lc = [l EXCEPT !.pc = "A_sc_store", !.sa = status]]
        [] OTHER ->  \* A_sc_store: scale(), then tryInsert(key, true)
             [e EXCEPT !.st = setBit(l.sa, 60),
                       !.lc = Enter([l EXCEPT !.sa = {}], l.key, TRUE, "ins", "add2")]

RemoveEff(l) ==
  LET e == E0(l)
  IN  IF notRunning(status)
      THEN [e EXCEPT !.lc = [l EXCEPT !.pc = "ret", !.res = "closed"]]
      ELSE [e EXCEPT !.lc = Enter(l, l.key, FALSE, "rem", "rem")]

(***************************************************************************)
(* unlock, as Add and expand call it: a load and a store of the word.      *)
(***************************************************************************)
\* unlock clearing the sealed bit in place of the lock bit.
unlockWrongBit(sa) == clrBit(sa, 61)

unlockSa(sa) == clrBit(sa, 62)

unlockEff(l) ==
  LET e == E0(l)
      n == IF l.src = Nil THEN 0 ELSE Len(tbls[l.src])
  IN  CASE l.pc = "U_load" ->
             [e EXCEPT !.lc = [l EXCEPT !.pc = "U_store", !.sa = status]]
        [] OTHER ->  \* U_store
             [e EXCEPT !.st = unlockSa(l.sa),
                       !.lc = CASE l.cont = "ret" ->
                                     [l EXCEPT !.pc = "ret", !.sa = {}, !.cont = "none",
                                               !.aidx = 0, !.err = "none"]
                                [] l.cont = "next" /\ l.ei + 1 < n ->
                                     [l EXCEPT !.pc = "E_run", !.sa = {}, !.cont = "none",
                                               !.ei = l.ei + 1, !.err = "none", !.key = 0]
                                [] OTHER -> [L0 EXCEPT !.pc = "dead"]]

(***************************************************************************)
(* expand(ri), the goroutine Add starts after a resize.                    *)
(***************************************************************************)
unScaleSa(sa) == clrBit(sa, 60)

\* s.lock() in expand: the result is not looked at.
expandLockFailed(l) == [l EXCEPT !.pc = "E_load", !.sa = {}]

expandEff(l) ==
  LET e == E0(l)
  IN  CASE l.pc = "E_ptr" ->
             IF cycle[l.ri] = Nil THEN [e EXCEPT !.lc = [l EXCEPT !.pc = "panic"]]
             ELSE [e EXCEPT !.lc = [l EXCEPT !.pc = "E_run", !.src = cycle[l.ri], !.ei = 0]]
        [] l.pc = "E_run" ->
             IF notRunning(status) THEN [e EXCEPT !.lc = [L0 EXCEPT !.pc = "dead"]]
             ELSE [e EXCEPT !.lc = [l EXCEPT !.pc = "E_lock"]]
        [] l.pc = "E_lock" ->
             IF isLocked(status) THEN [e EXCEPT !.lc = expandLockFailed(l)]
             ELSE [e EXCEPT !.lc = [l EXCEPT !.pc = "E_cas", !.sa = status]]
        [] l.pc = "E_cas" ->
             IF status = l.sa
             THEN [e EXCEPT !.st = setBit(l.sa, 62),
                            !.lc = [l EXCEPT !.pc = "E_load", !.sa = {}]]
             ELSE [e EXCEPT !.lc = expandLockFailed(l)]
        [] l.pc = "E_load" ->
             LET v == tbls[l.src][l.ei + 1]
             IN  IF v # 0 THEN [e EXCEPT !.lc = Enter(l, v, TRUE, "ins", "exp")]
                 ELSE [e EXCEPT !.lc = [l EXCEPT !.pc = "E_last"]]
        [] l.pc = "E_seal_load" ->
             [e EXCEPT !.lc = [l EXCEPT !.pc = "E_seal_store", !.sa = status]]
        [] l.pc = "E_seal_store" ->
             [e EXCEPT !.st = setBit(l.sa, 61), !.lc = Unlock([l EXCEPT !.sa = {}], "exit", "none")]
        [] l.pc = "E_last" ->
             IF l.ei = Len(tbls[l.src]) - 1
             THEN [e EXCEPT !.lc = [l EXCEPT !.pc = "E_null"]]
             ELSE [e EXCEPT !.lc = Unlock(l, "next", "none")]
        [] l.pc = "E_null" ->
             [e EXCEPT !.cy = [cycle EXCEPT ![l.ri] = Nil],
                       !.lc = [l EXCEPT !.pc = "E_us_load"]]
        [] l.pc = "E_us_load" ->
             [e EXCEPT !.lc = [l EXCEPT !.pc = "E_us_store", !.sa = status]]
        [] OTHER ->  \* E_us_store: unScale()
             [e EXCEPT !.st = unScaleSa(l.sa), !.lc = Unlock([l EXCEPT !.sa = {}], "next", "none")]

(***************************************************************************)
(* Contains, by a reader goroutine, and the same function evaluated in one *)
(* state (ContainsNow): what a call that runs alone returns.               *)
(***************************************************************************)
\* The scan running to the end of the table.
scanToEnd(slot, slotCnt) == slotCnt - slot

scanLen(slot, slotCnt) == IF slot + neighbour >= slotCnt THEN slotCnt - slot ELSE neighbour

containsGeneric(key, tbl, slot, n) == \E i \in 0..(n - 1) : tbl[slot + i + 1] = key

searchTbl(idx, key) ==
  /\ cycle[idx] # Nil
  /\ LET tbl == tbls[cycle[idx]]
         slot == SlotOf(idx, key, Len(tbl))
     IN  containsGeneric(key, tbl, slot, scanLen(slot, Len(tbl)))

isScalingSa(sa) == bitOne(sa, 60)

ContainsNow(key) ==
  IF key = 0 THEN bitOne(status, 58)
  ELSE LET idx == getWritableIdxByStatus(status)
       IN  \/ searchTbl(idx, key)
           \/ isScalingSa(status) /\ searchTbl(1 - idx, key)

Done(r, b) == [R0 EXCEPT !.pc = "done", !.key = r.key, !.res = IF b THEN "true" ELSE "false",
                         !.in = r.in, !.was = r.was]

ContainsEff(r) ==
  CASE r.pc = "C_sa" ->
         IF r.key = 0 THEN Done(r, bitOne(status, 58))
         ELSE [r EXCEPT !.pc = "C_ptr", !.idx = getWritableIdxByStatus(status)]
    [] r.pc \in {"C_ptr", "C_ptr2"} ->
         IF cycle[r.idx] = Nil
         THEN IF r.pc = "C_ptr" THEN [r EXCEPT !.pc = "C_scaling"] ELSE Done(r, FALSE)
         ELSE LET slotCnt == Len(tbls[cycle[r.idx]])
                  slot == SlotOf(r.idx, r.key, slotCnt)
              IN  [r EXCEPT !.pc = IF r.pc = "C_ptr" THEN "C_scan" ELSE "C_scan2",
                            !.tbl = cycle[r.idx], !.slot = slot,
                            !.n = scanLen(slot, slotCnt), !.i = 0]
    [] r.pc \in {"C_scan", "C_scan2"} ->
         IF tbls[r.tbl][r.slot + r.i + 1] = r.key THEN Done(r, TRUE)
         ELSE IF r.i + 1 < r.n THEN [r EXCEPT !.i = r.i + 1]
         ELSE IF r.pc = "C_scan"
         THEN [r EXCEPT !.pc = "C_scaling", !.tbl = Nil, !.slot = 0, !.n = 0, !.i = 0]
         ELSE Done(r, FALSE)
    [] OTHER ->  \* C_scaling
         IF ~isScalingSa(status) THEN Done(r, FALSE)
         ELSE [r EXCEPT !.pc = "C_ptr2", !.idx = 1 - r.idx]

(***************************************************************************)
(* Range(f), evaluated in one state: the sequence of the keys it calls f   *)
(* with, when f returns false exactly for the keys of stop.                *)
(***************************************************************************)
getTbl(idx) == IF cycle[idx] = Nil THEN <<>> ELSE tbls[cycle[idx]]

\* The loop over one table: zero slots are skipped, and the loop is left
\* after a call of f that returned false.
RECURSIVE rangeTbl(_, _)
rangeTbl(t, stop) ==
  IF t = <<>> THEN <<>>
  ELSE IF Head(t) = 0 THEN rangeTbl(Tail(t), stop)
  ELSE IF Head(t) \in stop THEN <<Head(t)>>
  ELSE <<Head(t)>> \o rangeTbl(Tail(t), stop)

hasZero == bitOne(status, 58)

Range(stop) ==
  rangeTbl(getTbl(0), stop) \o rangeTbl(getTbl(1), stop)
    \o (IF hasZero THEN <<0>> ELSE <<>>)

(***************************************************************************)
(* GetUsage, evaluated in one state.  It dereferences the writable table's *)
(* pointer, so it has a value only while that pointer is not nil.          *)
(***************************************************************************)
UsageDefined == cycle[getWritableIdxByStatus(status)] # Nil

Capacity == backToOriginCap(Len(tbls[cycle[getWritableIdxByStatus(status)]]))

Usage == getCntSa(status)

(***************************************************************************)
(* New(cap)                                                                *)
(***************************************************************************)
NewCap(cap) ==
  LET c0 == nextPower2(cap)
      c1m == IF c0 < minCap THEN minCap ELSE c0
      c2m == IF c1m > MaxCap THEN MaxCap ELSE c1m
  IN  calcTableCap(c2m)

InitWith(n) ==
  /\ \E cap \in 0..MaxNewCap : tbls = <<Zeros(NewCap(cap))>>
  /\ status = createStatus
  /\ cycle = [i \in {0, 1} |-> IF i = 0 THEN 1 ELSE Nil]
  /\ loc = [t \in {Writer} |-> L0]
  /\ rd = R0
  /\ cl = C0
  /\ ops = n
  /\ added = [all |-> {}, pre |-> {}, full |-> FALSE]
  /\ snap = NoSnap

Init == InitWith(MaxOps)

InitRd == InitWith(MaxOpsRd)

InitCl == InitWith(MaxOpsCl)

(***************************************************************************)
(* Actions: one per function of the code; each takes one atomic step of    *)
(* the goroutine that is inside it.                                        *)
(***************************************************************************)
TryPcs ==
  {"I_lock", "I_cas", "I_pause", "I_sealed", "I_zload", "I_zstore", "I_idx", "I_ptr",
   "I_scan", "I_store", "I_stfree", "I_defer"}

SwapPcs == {"S_find", "S_cand", "S_st1", "S_st2"}

AddPcs ==
  {"A_isScaling", "A_idx", "A_ptr", "A_pub", "A_sw_load", "A_sw_store",
   "A_sc_load", "A_sc_store"}

ExpandPcs ==
  {"E_ptr", "E_run", "E_lock", "E_cas", "E_load", "E_seal_load", "E_seal_store",
   "E_last", "E_null", "E_us_load", "E_us_store"}

\* Add returned nil: the key counts as added from here on.  An expand
\* goroutine stored the sealed bit: a migration reported ErrIsFull.
Returned(t, l) ==
  IF t = Writer /\ l.pc = "ret" /\ l.op = "Add" /\ l.res = "nil"
  THEN [added EXCEPT !.all = @ \cup {l.key}]
  ELSE IF t # Writer /\ loc[t].pc = "E_seal_store"
  THEN [added EXCEPT !.full = TRUE]
  ELSE added

\* What the writer's call starts from: the counter, whether the key is
\* contained, and the keys that are; rs records the resize of the call, if
\* it makes one: the index and the origin capacity of the table it found full.
TakeSnap(l) ==
  IF l.pc = "ret" THEN NoSnap
  ELSE [cnt |-> getCntSa(status), had |-> ContainsNow(l.key),
        in |-> {k \in Keys : ContainsNow(k)}, rs |-> NoResize]

Commit(t, e) ==
  /\ status' = e.st
  /\ cycle' = e.cy
  /\ tbls' = e.tb
  /\ loc' = [loc EXCEPT ![t] = e.lc]
  /\ added' = Returned(t, e.lc)
  /\ snap' = IF t = Writer /\ e.lc.pc = "ret" THEN NoSnap
             ELSE IF t = Writer /\ loc[t].pc = "A_pub"
             THEN [snap EXCEPT !.rs = [on |-> TRUE, idx |-> loc[t].aidx, oc |-> loc[t].oc]]
             ELSE snap
  /\ UNCHANGED <<rd, cl, ops>>

WriterFree == ~Crashed /\ loc[Writer].pc \in {"idle", "ret"} /\ ops > 0

Called(op, k) == [L0 EXCEPT !.pc = "run", !.op = op, !.key = k]

\* The goroutine id the go statement takes: a finished one's, or a new one.
NewId ==
  IF \E t \in DOMAIN loc : loc[t].pc = "dead"
  THEN Min({t \in DOMAIN loc : loc[t].pc = "dead"})
  ELSE Cardinality(DOMAIN loc)

\* The call of Add(k), up to its IsRunning check.
AddCall ==
  \E k \in Keys :
    /\ WriterFree
    /\ LET e == AddEff([Called("Add", k) EXCEPT !.pc = "A_run"])
       IN  /\ status' = e.st /\ cycle' = e.cy /\ tbls' = e.tb
           /\ loc' = [loc EXCEPT ![Writer] = e.lc]
           /\ snap' = TakeSnap(e.lc)
    /\ ops' = ops - 1
    /\ UNCHANGED <<rd, cl, added>>

\* The switch on tryInsert's error, with the resize.
AddStep ==
  /\ ~Crashed /\ loc[Writer].pc \in AddPcs
  /\ Commit(Writer, AddEff(loc[Writer]))

\* go s.expand(int(idx))
AddGo ==
  /\ ~Crashed /\ loc[Writer].pc = "A_go"
  /\ loc' = [t \in DOMAIN loc \cup {NewId} |->
               IF t = Writer THEN Unlock(loc[Writer], "ret", "nil")
               ELSE IF t = NewId
               THEN [L0 EXCEPT !.pc = "E_ptr", !.op = "expand", !.ri = loc[Writer].aidx]
               ELSE loc[t]]
  /\ added' = [added EXCEPT !.pre = added.all]
  /\ UNCHANGED <<status, cycle, tbls, rd, cl, ops, snap>>

Add == AddCall \/ AddStep \/ AddGo

Remove ==
  \E k \in Keys :
    /\ WriterFree
    /\ LET e == RemoveEff(Called("Remove", k))
       IN  /\ status' = e.st /\ cycle' = e.cy /\ tbls' = e.tb
           /\ loc' = [loc EXCEPT ![Writer] = e.lc]
           /\ snap' = TakeSnap(e.lc)
    /\ ops' = ops - 1
    /\ added' = [added EXCEPT !.all = @ \ {k}, !.pre = @ \ {k}]
    /\ rd' = IF rd.key = k THEN [rd EXCEPT !.in = FALSE, !.was = FALSE] ELSE rd
    /\ UNCHANGED cl

tryRemoveEff(l) == tryInsertEff(l)

tryInsert(t) ==
  /\ ~Crashed /\ loc[t].pc \in TryPcs \cup SwapPcs /\ loc[t].fn = "ins"
  /\ Commit(t, tryInsertEff(loc[t]))

tryRemove(t) ==
  /\ ~Crashed /\ loc[t].pc \in TryPcs \cup SwapPcs /\ loc[t].fn = "rem"
  /\ Commit(t, tryRemoveEff(loc[t]))

unlock(t) ==
  /\ ~Crashed /\ loc[t].pc \in {"U_load", "U_store"}
  /\ Commit(t, unlockEff(loc[t]))

expand(t) ==
  /\ ~Crashed /\ loc[t].pc \in ExpandPcs
  /\ Commit(t, expandEff(loc[t]))

closeSa(sa) == clrBit(sa, 63)

Close ==
  /\ ~Crashed
  /\ CASE cl.pc = "idle" ->
            /\ cl' = [pc |-> "X_store", sa |-> status]
            /\ added' = [added EXCEPT !.all = {}, !.pre = {}]
            /\ rd' = [rd EXCEPT !.in = FALSE, !.was = FALSE]
            /\ UNCHANGED <<status, cycle>>
       [] cl.pc = "X_store" ->
            /\ status' = closeSa(cl.sa)
            /\ cl' = [pc |-> "X_nil0", sa |-> {}]
            /\ UNCHANGED <<cycle, added, rd>>
       [] cl.pc = "X_nil0" ->
            /\ cycle' = [cycle EXCEPT ![0] = Nil]
            /\ cl' = [cl EXCEPT !.pc = "X_nil1"]
            /\ UNCHANGED <<status, added, rd>>
       [] cl.pc = "X_nil1" ->
            /\ cycle' = [cycle EXCEPT ![1] = Nil]
            /\ cl' = [cl EXCEPT !.pc = "closed"]
            /\ UNCHANGED <<status, added, rd>>
       [] OTHER -> FALSE
  /\ UNCHANGED <<tbls, loc, ops, snap>>

Contains ==
  /\ ~Crashed
  /\ \/ \E k \in Keys :
          /\ rd.pc \in {"idle", "done"}
          /\ rd' = ContainsEff([R0 EXCEPT !.pc = "C_sa", !.key = k, !.in = k \in added.pre,
                                           !.was = k \in added.all])
     \/ /\ rd.pc \notin {"idle", "done"}
        /\ rd' = ContainsEff(rd)
  /\ UNCHANGED <<status, cycle, tbls, loc, cl, ops, added, snap>>

Next ==
  \/ Add
  \/ Remove
  \/ \E t \in DOMAIN loc : tryInsert(t)
  \/ \E t \in DOMAIN loc : tryRemove(t)
  \/ \E t \in DOMAIN loc : unlock(t)
  \/ \E t \in DOMAIN loc : expand(t)

Spec == Init /\ [][Next]_vars

(***************************************************************************)
(* Fair scheduling: a goroutine that can take a step eventually takes one. *)
(* The calling goroutine is the writer; the expand goroutines finish after *)
(* finitely many steps, so fairness to their union is fairness to each.    *)
(***************************************************************************)
WriterNext ==
  Add \/ Remove \/ tryInsert(Writer) \/ tryRemove(Writer) \/ unlock(Writer)

MigratorNext ==
  \E t \in DOMAIN loc \ {Writer} : tryInsert(t) \/ unlock(t) \/ expand(t)

SpecFair == Spec /\ WF_vars(WriterNext) /\ WF_vars(MigratorNext)

NextRd == Next \/ Contains

SpecRd == InitRd /\ [][NextRd]_vars

NextCl == Next \/ Close

SpecCl == InitCl /\ [][NextCl]_vars

(***************************************************************************)
(* The writer and a reader on the set New returns for a capacity of MaxCap *)
(* or more: Add never resizes such a set, so no expand goroutine exists.   *)
(***************************************************************************)
InitSw ==
  /\ tbls = <<Zeros(NewCap(MaxNewCap))>>
  /\ status = createStatus
  /\ cycle = [i \in {0, 1} |-> IF i = 0 THEN 1 ELSE Nil]
  /\ loc = [t \in {Writer} |-> L0]
  /\ rd = R0
  /\ cl = C0
  /\ ops = MaxOpsSw
  /\ added = [all |-> {}, pre |-> {}, full |-> FALSE]
  /\ snap = NoSnap

NextSw ==
  \/ AddCall
  \/ AddStep
  \/ Remove
  \/ tryInsert(Writer)
  \/ tryRemove(Writer)
  \/ unlock(Writer)
  \/ Contains

SpecSw == InitSw /\ [][NextSw]_vars

(***************************************************************************)
(* The writer on a set that has grown once: the states Spec reaches by     *)
(* New(0); Add(a); Add(b) for two keys a, b with home slot 1 of the 2-slot *)
(* table, once the expand goroutine has moved a and returned.  Add(b)      *)
(* found the table full, installed the 5-slot table at cycle[1] and stored *)
(* b there, expand stored a there and set cycle[0] to nil; the counter is  *)
(* 3, since tryInsert counted a once more.                                 *)
(***************************************************************************)
\* tryInsert into a table with an empty slot at the key's home or next to it.
Place(tbl, key) ==
  LET slot == SlotOf(1, key, Len(tbl))
  IN  IF tbl[slot + 1] = 0 THEN [tbl EXCEPT ![slot + 1] = key]
      ELSE [tbl EXCEPT ![slot + 2] = key]

InitGrown ==
  /\ \E a, b \in Keys \ {0} :
       /\ a # b
       /\ SlotOf(0, a, NewCap(0)) = 1 /\ SlotOf(0, b, NewCap(0)) = 1
       /\ tbls = <<[Zeros(NewCap(0)) EXCEPT ![2] = a],
                   Place(Place(Zeros(calcTableCap(2 * minCap)), b), a)>>
       /\ added = [all |-> {a, b}, pre |-> {a}, full |-> FALSE]
  /\ status = addCntSa(addCntSa(addCntSa(setWritableSa(createStatus, 1))))
  /\ cycle = [i \in {0, 1} |-> IF i = 0 THEN Nil ELSE 2]
  /\ loc = [t \in {Writer} |-> L0]
  /\ rd = R0
  /\ cl = C0
  /\ ops = MaxOpsGrown
  /\ snap = NoSnap

SpecGrown == InitGrown /\ [][Next]_vars

(***************************************************************************)
(* getTblSlotByIdx on its own: a table built for a power-of-two capacity   *)
(* above neighbour, as New and Add's resize build them, and the slot of a  *)
(* hash word h.  The words are the low halves up to MaxHash and the all-   *)
(* ones half, under both an all-zeros and an all-ones high half.           *)
(***************************************************************************)
PowCaps == {c \in 1..MaxCap : c = nextPower2(c) /\ neighbour < c}

HashWords ==
  {W32(hi, lo) : hi \in {0, Pow2(16) - 1}, lo \in (0..MaxHash) \cup {Pow2(16) - 1}}

InitMask ==
  /\ \E c \in PowCaps : tbls = <<Zeros(calcTableCap(c))>>
  /\ status = createStatus
  /\ cycle = [i \in {0, 1} |-> IF i = 0 THEN 1 ELSE Nil]
  /\ loc = [t \in {Writer} |-> L0]
  /\ rd = R0
  /\ cl = C0
  /\ ops = 0
  /\ added = [all |-> {}, pre |-> {}, full |-> FALSE]
  /\ snap = NoSnap

\* slot = int(h & calcMask(uint32(len(tbl)))), for the table of cycle[0].
getTblSlotByIdx ==
  /\ cycle[0] # Nil
  /\ \E h \in HashWords :
       rd' = [R0 EXCEPT !.pc = "slot", !.tbl = cycle[0], !.h = h,
                        !.slot = BitAnd(h[2], calcMask(Len(tbls[cycle[0]])))]
  /\ UNCHANGED <<status, cycle, tbls, loc, cl, ops, added, snap>>

SpecMask == InitMask /\ [][getTblSlotByIdx]_vars

(***************************************************************************)
(* Properties.                                                             *)
(***************************************************************************)
Running == bitOne(status, 63)

WriterAt(op, res) ==
  loc[Writer].pc = "ret" /\ loc[Writer].op = op /\ loc[Writer].res = res

\* No Add or Remove in progress and no migrator running.
Quiescent ==
  /\ ~Crashed
  /\ loc[Writer].pc \in {"idle", "ret"}
  /\ \A t \in DOMAIN loc \ {Writer} : loc[t].pc = "dead"

\* C1: whenever the writer is between calls on a running set, Contains(k)
\* returns true for every key k whose Add returned nil and for which no
\* Remove was called since.
C1_AddThenContains ==
  (Running /\ ~Crashed /\ loc[Writer].pc \in {"idle", "ret"})
    => \A k \in added.all : ContainsNow(k)

\* C2: a reader's Contains(k), called for a key k that was added before the
\* last migration started and that no Remove was called for, returns true.
C2_NoKeyLossAcrossResize ==
  (rd.pc = "done" /\ rd.in) => rd.res = "true"

\* C3: in the state where Remove(k) has returned on a running set,
\* Contains(k) returns false.
C3_RemoveThenContains ==
  (Running /\ loc[Writer].pc = "ret" /\ loc[Writer].op = "Remove"
     /\ loc[Writer].res # "closed")
    => ~ContainsNow(loc[Writer].key)

\* C4: on a running set that is not sealed, an Add(k) that was called while
\* Contains(k) was true returns nil, and the counter at its return is the
\* counter at its call.
C4_IdempotentAdd ==
  [][(/\ loc[Writer].op = "Add"
      /\ loc[Writer].pc # "ret"
      /\ loc'[Writer].pc = "ret"
      /\ Running /\ ~bitOne(status, 61)
      /\ snap.had)
       => (loc'[Writer].res = "nil" /\ getCntSa(status') = snap.cnt)]_vars

CountNonZero(id) ==
  IF id = Nil THEN 0 ELSE Cardinality({i \in 1..Len(tbls[id]) : tbls[id][i] # 0})

LiveKeys ==
  CountNonZero(cycle[0]) + CountNonZero(cycle[1]) + (IF bitOne(status, 58) THEN 1 ELSE 0)

\* C5: in every quiescent state the counter equals the number of non-zero
\* slots of the non-nil tables, plus one if has_zero is set.
C5_CountIsLiveKeys ==
  Quiescent => getCntSa(status) = Bits(LiveKeys)

\* C6: no step of a running set lowers the capacity GetUsage reports.
C6_CapacityMonotone ==
  [][(Running /\ Running' /\ UsageDefined /\ UsageDefined')
       => Capacity' >= Capacity]_vars

\* C7: in every state after Close has returned, is_running is 0.
C7_ClosedStaysClosed ==
  cl.pc = "closed" => ~Running

\* C8: a call of Add or Remove that finds is_running = 0 returns at once, Add
\* with Closed and Remove silently, and the status word (lock and counter
\* included), the table pointers and every slot are as before the call.
C8_ClosedCallsChangeNothing ==
  [][(ops' = ops - 1 /\ ~bitOne(status, 63))
       => (/\ loc'[Writer].pc = "ret"
           /\ loc'[Writer].op = "Add" => loc'[Writer].res = "Closed"
           /\ loc'[Writer].op = "Remove" => loc'[Writer].res = "closed"
           /\ status' = status
           /\ tbls' = tbls
           /\ cycle' = cycle)]_vars

C8_AddOnClosedSet ==
  ~Running /\ cl.pc = "closed" /\ WriterAt("Add", "Closed")

\* The writer is inside Add(k), first tryInsert, holding the lock.
InAddAt(pc) ==
  loc[Writer].op = "Add" /\ loc[Writer].pc = pc

WriterSteps == loc'[Writer] # loc[Writer]

FrameOfAdd ==
  /\ getCntSa(status') = getCntSa(status)
  /\ bitOne(status', 58) = bitOne(status, 58)
  /\ bitOne(status', 59) = bitOne(status, 59)
  /\ tbls' = tbls
  /\ cycle' = cycle

C10_SealedIsTerminal ==
  /\ [][(Running /\ Running' /\ bitOne(status, 61)) => bitOne(status', 61)]_vars
  /\ []((Running /\ ~Crashed /\ bitOne(status, 61) /\ loc[Writer].pc \in {"idle", "ret"})
          => \A k \in added.all : ContainsNow(k))

\* The keys Contains returns true for.
Contained == {k \in Keys : ContainsNow(k)}

\* C11: an Add whose tryInsert returned Full while is_scaling is set goes to
\* unlock with the AddTooFast error and returns it with the lock bit clear;
\* none of these steps allocates a table or changes a table pointer, a slot,
\* writable_idx, has_zero or the counter, and at the return every key that
\* was contained at the call is contained.
C11_AddTooFastChangesNothing ==
  [][/\ (WriterSteps /\ InAddAt("A_isScaling") /\ bitOne(status, 60))
          => (/\ loc'[Writer].pc = "U_load"
              /\ loc'[Writer].res = "AddTooFast"
              /\ loc'[Writer].cont = "ret"
              /\ status' = status
              /\ FrameOfAdd)
     /\ (WriterSteps /\ InAddAt("U_load") /\ loc[Writer].res = "AddTooFast")
          => (loc'[Writer].pc = "U_store" /\ status' = status /\ FrameOfAdd)
     /\ (WriterSteps /\ InAddAt("U_store") /\ loc[Writer].res = "AddTooFast")
          => (/\ loc'[Writer].pc = "ret"
              /\ loc'[Writer].res = "AddTooFast"
              /\ ~isLocked(status')
              /\ FrameOfAdd
              /\ snap.in \subseteq Contained')]_vars

C11_AddReturnedTooFast ==
  Running /\ ~isLocked(status) /\ WriterAt("Add", "AddTooFast")

\* Add's frame, with is_scaling.
FrameOfFull == FrameOfAdd /\ bitOne(status', 60) = bitOne(status, 60)

Rank(r) ==
  CASE r.pc = "C_sa" -> 0
    [] r.pc = "C_ptr" -> 1
    [] r.pc = "C_scan" -> 2 + r.i
    [] r.pc = "C_scaling" -> 2 + neighbour
    [] r.pc = "C_ptr2" -> 3 + neighbour
    [] r.pc = "C_scan2" -> 4 + neighbour + r.i
    [] OTHER -> 4 + 2 * neighbour

ReaderSteps == rd'.pc # rd.pc \/ rd'.i # rd.i \/ rd'.key # rd.key

ReaderInside == rd.pc \notin {"idle", "done"}

\* C13: a step of Contains leaves the status word, the table pointers, the
\* slots and the other goroutines as they are; it loads slot i < n of a
\* table with n <= neighbour; inside a call every step moves the reader
\* forward through status load, pointer load, at most neighbour slot loads,
\* is_scaling load, pointer load, at most neighbour slot loads; and while the
\* process lives the reader's next step is enabled whatever the others do.
C13_ContainsWaitFreeReadOnly ==
  /\ [](rd.pc \in {"C_scan", "C_scan2"} => (rd.i < rd.n /\ rd.n <= neighbour))
  /\ []((ReaderInside /\ ~Crashed) => ENABLED Contains)
  /\ [][ReaderSteps
          => (/\ status' = status /\ cycle' = cycle /\ tbls' = tbls /\ loc' = loc
              /\ ReaderInside => Rank(rd') > Rank(rd)
              /\ Rank(rd') <= 4 + 2 * neighbour)]_vars

C13_ReaderScansSecondTable ==
  /\ rd.pc = "C_scan2" /\ rd.i = neighbour - 1
  /\ \E t \in DOMAIN loc \ {Writer} : loc[t].pc \in TryPcs
  /\ loc[Writer].pc \in {"U_load", "U_store"}

\* The number of calls of f with key k.
Calls(k, calls) == Cardinality({i \in 1..Len(calls) : calls[i] = k})

\* C14: in every quiescent state, Range with an f that always returns true
\* calls f once with every key Contains returns true for, never with
\* another key, and with 0 exactly if has_zero is set.
C14_RangeVisitsEachKeyOnce ==
  Quiescent =>
    /\ \A k \in Keys : Calls(k, Range({})) = (IF ContainsNow(k) THEN 1 ELSE 0)
    /\ Calls(0, Range({})) = (IF hasZero THEN 1 ELSE 0)

\* C15: in every quiescent state of a set that is neither locked nor sealed,
\* and for every f, a call of f that returned false is the last call Range
\* makes.
C15_RangeStopsOnFalse ==
  (Quiescent /\ ~isLocked(status) /\ ~bitOne(status, 61)) =>
    \A stop \in SUBSET Keys :
      \A i \in 1..(Len(Range(stop)) - 1) : Range(stop)[i] \notin stop

NoSlotUsed == \A id \in 1..Len(tbls) : \A i \in 1..Len(tbls[id]) : tbls[id][i] = 0

\* C16: on the set New returned Contains(0) is false; when Add(0), called
\* first, has returned nil, has_zero is set and the counter is 1; when a
\* Remove(0) called next returns, has_zero is clear and the counter is 0; and
\* no step of an Add(0) or a Remove(0) writes a slot or a table pointer.
C16_ZeroKeptInFlag ==
  /\ [](ops = MaxOps => ~ContainsNow(0))
  /\ []((ops = MaxOps - 1 /\ WriterAt("Add", "nil") /\ loc[Writer].key = 0)
          => (hasZero /\ getCntSa(status) = Bits(1) /\ NoSlotUsed))
  /\ [][(/\ ops = MaxOps - 2
         /\ loc[Writer].op = "Remove" /\ loc[Writer].key = 0
         /\ loc[Writer].pc # "ret" /\ loc'[Writer].pc = "ret"
         /\ snap.had /\ snap.cnt = Bits(1))
          => (~hasZero' /\ getCntSa(status') = {} /\ NoSlotUsed')]_vars
  /\ [][(WriterSteps /\ loc'[Writer].key = 0 /\ loc'[Writer].op \in {"Add", "Remove"})
          => (tbls' = tbls /\ cycle' = cycle)]_vars

C16_ZeroAddedAndRemoved ==
  /\ ops = MaxOps - 2 /\ WriterAt("Remove", "nil") /\ loc[Writer].key = 0
  /\ ~hasZero /\ getCntSa(status) = {} /\ NoSlotUsed

\* C17: on a running set, no step of a Remove(k) called while Contains(k)
\* was false changes the counter, has_zero or a slot, and when it returns
\* Contains(k) is false.
C17_RemoveAbsentIsNoOp ==
  [][(/\ WriterSteps
      /\ loc[Writer].op = "Remove" /\ loc[Writer].pc \notin {"idle", "ret"}
      /\ ~snap.had /\ Running)
       => (/\ getCntSa(status') = getCntSa(status)
           /\ hasZero' = hasZero
           /\ tbls' = tbls
           /\ loc'[Writer].pc = "ret" => ~ContainsNow(loc[Writer].key)')]_vars

\* C18: in every state of a set that is not sealed, where no Add, no Remove
\* and no migrator is in progress, the locked bit of the status word is 0.
C18_LockFreeWhenQuiescent ==
  (Quiescent /\ ~bitOne(status, 61)) => ~isLocked(status)

\* C19: under fair scheduling every call of Add and of Remove that is in
\* progress on a set that is not sealed returns, as long as no goroutine
\* panics.
C19_EveryCallReturns ==
  (loc[Writer].pc \notin {"idle", "ret"} /\ ~bitOne(status, 61))
    ~> (loc[Writer].pc = "ret" \/ Crashed)

\* C20: before the first call, the set New returned has is_running = 1,
\* locked = sealed = is_scaling = writable_idx = has_zero = 0 and counter 0,
\* cycle[0] points to a table whose slots are all 0, and cycle[1] is nil.
C20_NewIsInitialState ==
  ops = MaxOps =>
    /\ Running
    /\ ~isLocked(status)
    /\ ~bitOne(status, 61)
    /\ ~bitOne(status, 60)
    /\ getWritableIdxByStatus(status) = 0
    /\ ~hasZero
    /\ getCntSa(status) = {}
    /\ status = {63}
    /\ cycle[0] # Nil
    /\ \A i \in 1..Len(tbls[cycle[0]]) : tbls[cycle[0]][i] = 0
    /\ cycle[1] = Nil

C20_NewWithLargestCap ==
  /\ ops = MaxOps /\ loc[Writer].pc = "idle"
  /\ cycle[0] # Nil /\ Len(tbls[cycle[0]]) = NewCap(MaxNewCap)

\* The pcs of a goroutine that is past s.lock() and before the store of its
\* unlock: the lock bit is its own.
LockedPcs ==
  (TryPcs \ {"I_lock", "I_cas", "I_pause"}) \cup SwapPcs \cup AddPcs
    \cup {"A_go", "U_load", "U_store"}

WriterInCritical ==
  loc[Writer].op \in {"Add", "Remove"} /\ loc[Writer].pc \in LockedPcs

MigratorInCritical(t) ==
  loc[t].pc \in LockedPcs \cup (ExpandPcs \ {"E_ptr", "E_run", "E_lock", "E_cas"})

\* C21: the writer, inside Add or Remove after its lock succeeded, and a
\* migrator, between the lock and the unlock of one slot, are never in their
\* critical sections in the same state; the one that stores its unlock is
\* then the only holder of the lock bit it clears.
C21_MutualExclusion ==
  \A t \in DOMAIN loc \ {Writer} : ~(WriterInCritical /\ MigratorInCritical(t))

NoSwapInProgress == \A t \in DOMAIN loc : loc[t].pc \notin {"S_st1", "S_st2"}

\* C22: in every state where no insert is in the middle of a swap, every
\* non-zero slot j of every non-nil table idx holds a key whose home slot
\* calcHash(idx, k) & mask lies in [max(0, j - neighbour + 1), j].
C22_KeysInNeighbourhood ==
  NoSwapInProgress =>
    \A idx \in {0, 1} :
      cycle[idx] # Nil =>
        \A j \in 0..(Len(tbls[cycle[idx]]) - 1) :
          LET k == tbls[cycle[idx]][j + 1]
              home == IF k = 0 THEN 0
                      ELSE BitAnd(HashOf[idx, k][2], calcMask(Len(tbls[cycle[idx]])))
          IN  k # 0 => (home <= j /\ j - neighbour + 1 <= home)

\* A key was pulled to the last slot of its neighbourhood by a swap that
\* made room for another key, stored in the slot it left.
C22_KeyMovedBySwap ==
  /\ loc[Writer].pc = "I_defer"
  /\ loc[Writer].slotOff = neighbour
  /\ \E idx \in {0, 1} :
       /\ cycle[idx] = loc[Writer].tbl
       /\ \E j \in 1..(Len(tbls[cycle[idx]]) - 1) :
            LET k == tbls[cycle[idx]][j + 1]
            IN  /\ k \notin {0, loc[Writer].key}
                /\ tbls[cycle[idx]][j] = loc[Writer].key
                /\ SlotOf(idx, k, Len(tbls[cycle[idx]])) = j - neighbour + 1

\* C23: while swap moves a key k from slot j to the free slot i, k is stored
\* at i before slot j is cleared, so between the two stores k is in both
\* slots, both in k's neighbourhood; and a reader that scans concurrently
\* finds every key that was added when it was called.
C23_RelocationKeepsKeyVisible ==
  /\ \A t \in DOMAIN loc :
       loc[t].pc = "S_st2" =>
         LET l == loc[t]
             home == SlotOf(l.idx, l.k, Len(tbls[l.tbl]))
         IN  /\ tbls[l.tbl][l.si + 1] = l.k
             /\ tbls[l.tbl][l.sj + 1] = l.k
             /\ home <= l.sj /\ l.sj < l.si /\ l.si - home < neighbour
  /\ (rd.pc = "done" /\ rd.was) => rd.res = "true"

\* The reader is about to load the slot the key is leaving, and the writer
\* is between the two stores of swap.
C23_ReaderScansDuringSwap ==
  /\ loc[Writer].pc = "S_st2"
  /\ rd.pc = "C_scan" /\ rd.was
  /\ rd.key = loc[Writer].k
  /\ rd.tbl = loc[Writer].tbl
  /\ rd.slot + rd.i = loc[Writer].sj

\* C24: in every state, those inside a resize, inside the migrator's last
\* step and inside Close included, a set that is running and not sealed has
\* a non-nil table pointer at cycle[writable_idx].
C24_WritableTableNotNil ==
  (Running /\ ~isSealedSa(status)) => cycle[getWritableIdxByStatus(status)] # Nil

\* C25: in every state, those inside a resize, inside the migrator's last
\* step and inside Close included, is_scaling set means that both
\* cycle[writable_idx] and cycle[writable_idx ^ 1] are non-nil.  Stated
\* for the sets that are not sealed, which leaves out the status words a
\* counter borrow produces.
C25_ScalingHasBothTables ==
  (isScalingSa(status) /\ ~isSealedSa(status)) => (cycle[0] # Nil /\ cycle[1] # Nil)

\* C26: an Add(k) that found the writable table full on a set that was not
\* scaling, with twice the origin capacity within MaxCap, returns nil with
\* a table of twice the origin capacity at cycle[old_idx ^ 1], with
\* writable_idx flipped and is_scaling set, with k stored in the new table
\* and with the counter one above its value at the call.
C26_ResizeStep ==
  [][(/\ loc[Writer].pc = "U_store" /\ loc[Writer].op = "Add"
      /\ snap.rs.on /\ loc'[Writer].pc = "ret")
       => LET n == 1 - snap.rs.idx
          IN  /\ loc'[Writer].res = "nil"
              /\ cycle'[n] # Nil
              /\ backToOriginCap(Len(tbls'[cycle'[n]])) = 2 * snap.rs.oc
              /\ getWritableIdxByStatus(status') = n
              /\ isScalingSa(status')
              /\ searchTbl(n, loc[Writer].key)'
              /\ getCntSa(status') = getCntSa(addCntSa(snap.cnt))]_vars

\* An expand goroutine has been started and has not loaded its source yet.
Migrating == \E t \in DOMAIN loc \ {Writer} : loc[t].pc = "E_ptr"

FullReported ==
  \E t \in DOMAIN loc \ {Writer} :
    loc[t].pc \in {"E_seal_load", "E_seal_store"} \/ loc[t].cont = "exit"

MigrationDone ==
  /\ ~isScalingSa(status)
  /\ cycle[getWritableIdxByStatus(status)] # Nil
  /\ cycle[1 - getWritableIdxByStatus(status)] = Nil

\* C27: under fair scheduling a migration that was started on a set that
\* is not closed, and whose inserts do not report Full, comes to its end:
\* the source pointer is nil, is_scaling is clear and the writable table is
\* the only one.
C27_MigrationCompletes ==
  Migrating ~> (MigrationDone \/ FullReported \/ Crashed)

\* A migration that went through every slot of its source.
C27_MigrationCompleted ==
  /\ MigrationDone
  /\ \E t \in DOMAIN loc \ {Writer} :
       loc[t].pc \in {"U_load", "U_store"} /\ loc[t].cont = "next"
         /\ loc[t].ei = Len(tbls[loc[t].src]) - 1
  /\ cycle[getWritableIdxByStatus(status)] = Len(tbls)

\* C28: an expand goroutine whose tryInsert returned ErrIsFull sets sealed,
\* releases the lock and takes no further step; and from then on an Add
\* finds the sealed bit, so that it returns ErrIsSealed: in every state
\* after the seal where the set is running, unlocked and at rest, where an
\* Add would run alone, the sealed bit is set.
C28_FullMigrationSeals ==
  /\ [][\A t \in DOMAIN loc \ {Writer} :
          /\ (loc[t].pc = "E_seal_store" /\ loc'[t] # loc[t])
               => (isSealedSa(status') /\ loc'[t].pc = "U_load" /\ loc'[t].cont = "exit")
          /\ (loc[t].pc = "U_store" /\ loc[t].cont = "exit" /\ loc'[t] # loc[t])
               => (~isLocked(status') /\ loc'[t].pc = "dead")]_vars
  /\ []((added.full /\ Quiescent /\ Running /\ ~isLocked(status)) => isSealedSa(status))

\* The tryInsert of expand found its key in the destination table: it is at
\* the return of "already contains", with the slot's value in k.
MigratorFoundKey(t) ==
  /\ loc[t].pc = "I_defer" /\ loc[t].site = "exp"
  /\ loc[t].k = loc[t].key /\ loc[t].key # 0
  /\ loc[t].tbl # loc[t].src

\* C29: when the migrator's insert finds the source key already stored in
\* the destination table, the counter goes down by one for that key.
C29_ExistedDecrementsCount ==
  [][\A t \in DOMAIN loc \ {Writer} :
       (MigratorFoundKey(t) /\ loc'[t] # loc[t])
         => getCntSa(status') = getCntSa(delCntSa(status))]_vars

\* C30: once Close has been called, no goroutine that is inside Add,
\* Remove or expand dereferences a nil table pointer: each one finishes on
\* a pointer it loaded before Close stored nil, or sees is_running clear.
C30_NoNilDerefAfterClose ==
  cl.pc # "idle" => ~Crashed

\* C31: no resurrection by the migrator.  Once Remove(k) has returned (nil)
\* while a migrator was at work, Contains(k) is false: in the state of the
\* return and in every state the migrators reach while the writer makes no
\* further call.
MigratorAlive ==
  \E t \in DOMAIN loc \ {Writer} : loc[t].pc \notin {"dead", "panic"}

RemoveReturned ==
  /\ loc[Writer].op = "Remove" /\ loc[Writer].pc = "ret" /\ loc[Writer].res = "nil"

C31_NoResurrection ==
  [][(MigratorAlive /\ RemoveReturned' /\ ~Crashed')
       => ~(ContainsNow(loc[Writer].key))']_vars

\* C32: every update of the status word is one atomic read-modify-write.
\* The store that ends a flag operation (unlock, seal, scale, unScale,
\* setWritable, addZero / removeZero, close) leaves in the word everything
\* another goroutine wrote to it since the operation loaded it: the word
\* after the store is the word before the store with the operation applied.
FlagStore(t, pc) == loc[t].pc = pc /\ loc'[t] # loc[t]

C32_AtomicStatusUpdates ==
  [][/\ \A t \in DOMAIN loc :
          /\ FlagStore(t, "U_store") => status' = unlockSa(status)
          /\ FlagStore(t, "E_seal_store") => status' = setBit(status, 61)
          /\ FlagStore(t, "A_sc_store") => status' = setBit(status, 60)
          /\ FlagStore(t, "E_us_store") => status' = unScaleSa(status)
          /\ FlagStore(t, "A_sw_store")
               => status' = setWritableSa(status, getWritableIdxByStatus(status'))
          /\ FlagStore(t, "I_zstore") => status' = zeroBit(loc[t].fn, status)
     /\ (cl.pc = "X_store" /\ cl' # cl) => status' = closeSa(status)]_vars

\* C33: each flag operation changes only its own bit.  The word a flag
\* operation stores differs from the word it loaded in at most the bit of
\* that operation (lock, unlock: 62; seal: 61; scale, unScale: 60;
\* setWritable: 59; addZero, removeZero: 58; close: 63), so the counter, the
\* reserved bits 32..57 and the other flags are stored as they were loaded;
\* and the function behind each store has this property on every status
\* word the program reaches.
OnlyBit(new, old, b) == new \ {b} = old \ {b}

C33_PureFlagOps ==
  /\ OnlyBit(setBit(status, 62), status, 62) /\ OnlyBit(unlockSa(status), status, 62)
  /\ OnlyBit(setBit(status, 61), status, 61)
  /\ OnlyBit(setBit(status, 60), status, 60) /\ OnlyBit(unScaleSa(status), status, 60)
  /\ \A idx \in {0, 1} : OnlyBit(setWritableSa(status, idx), status, 59)
  /\ \A fn \in {"ins", "rem"} : OnlyBit(zeroBit(fn, status), status, 58)
  /\ OnlyBit(closeSa(status), status, 63)

HighBits(sa) == sa \ (0..(cntBits - 1))

C34_CounterStaysInLowBits ==
  [][\A t \in DOMAIN loc :
       FlagStore(t, "I_defer") => HighBits(status') = HighBits(status)]_vars

\* C35: the relocation loop of an insert terminates.  A swap that returns
\* swapOK leaves the empty slot at an index strictly below the one it had,
\* the next round starts there, an insert has made fewer such swaps than its
\* table has slots, and the loop ends by storing the key into an empty slot
\* of [home, home + neighbour) or by returning ErrIsFull.
InRelocation(t) == loc[t].pc \in SwapPcs \cup {"I_stfree"}

C35_SwapCountBounded ==
  \A t \in DOMAIN loc : InRelocation(t) => loc[t].sw < Len(tbls[loc[t].tbl])

ReturnsFull(t) ==
  /\ loc[t].pc \in TryPcs \cup SwapPcs
  /\ loc'[t].pc \notin TryPcs \cup SwapPcs /\ loc'[t].err = "Full"

C36_FullInsertKeepsKeys ==
  [][\A t \in DOMAIN loc :
       ReturnsFull(t)
         => /\ tbls' = tbls
            /\ KeysOf(tbls[loc[t].tbl]) = loc[t].ks
            /\ loc[t].key \notin KeysOf(tbls[loc[t].tbl])]_vars

\* C37: no duplicates inside a table.  In every state where no insert is
\* between the two stores of a swap, a non-zero key occupies at most one
\* slot of each table a cycle slot points to.
SlotsOf(tbl, k) == {i \in 1..Len(tbl) : tbl[i] = k}

C37_NoDuplicates ==
  NoSwapInProgress
    => \A idx \in {0, 1} :
         cycle[idx] # Nil
           => \A k \in KeysOf(tbls[cycle[idx]]) :
                Cardinality(SlotsOf(tbls[cycle[idx]], k)) = 1

\* C38: at most one migration is in flight.  Add installs a new table into
\* a cycle slot only while is_scaling is clear and that slot is nil, and at
\* most one expand goroutine is running.
Migrators == {t \in DOMAIN loc \ {Writer} : loc[t].pc \notin {"dead", "panic"}}

C38_InstallIntoNilSlot ==
  [][(loc[Writer].pc = "A_pub" /\ loc'[Writer] # loc[Writer])
       => (~isScalingSa(status) /\ cycle[1 - loc[Writer].aidx] = Nil)]_vars

C38_OneMigrator == Cardinality(Migrators) <= 1

C38_OneMigrationInFlight == C38_InstallIntoNilSlot /\ []C38_OneMigrator

\* C39: while both tables are non-nil and no mutation is in progress, Range
\* with an f that always returns true first calls f with the keys of the
\* writable table from its last slot down to its first, and calls f exactly
\* once with a key that is stored in the non-writable table and in that
\* key's neighbourhood of the writable table.
Reverse(s) == [i \in 1..Len(s) |-> s[Len(s) + 1 - i]]

BothTables == cycle[0] # Nil /\ cycle[1] # Nil

C39_RangeOrderAndDedup ==
  (Quiescent /\ BothTables) =>
    LET w == getWritableIdxByStatus(status)
        first == Reverse(rangeTbl(getTbl(w), {}))
        calls == Range({})
    IN  /\ Len(calls) >= Len(first)
        /\ SubSeq(calls, 1, Len(first)) = first
        /\ \A k \in KeysOf(getTbl(1 - w)) : searchTbl(w, k) => Calls(k, calls) = 1

\* C40: for a table built from a power-of-two capacity c with
\* neighbour < c <= MaxCap and for every hash word h, the home slot
\* s = h & calcMask(len(table)) satisfies s + neighbour <= len(table), so a
\* scan of neighbour slots from s stays inside the table.
C40_HomeSlotLeavesNeighbourhood ==
  rd.pc = "slot" =>
    /\ rd.slot + neighbour <= Len(tbls[rd.tbl])
    /\ scanLen(rd.slot, Len(tbls[rd.tbl])) = neighbour

\* The highest home slot of a table, taken by a hash word with bits above the mask.
C40_TopHomeSlot ==
  /\ rd.pc = "slot" /\ rd.slot + neighbour = Len(tbls[rd.tbl])
  /\ rd.h[2] > rd.slot /\ rd.h[1] # 0

====
